---- MODULE Spec2Model ----
(***************************************************************************)
(* FruitFrost pricing dashboard (src/app.py): a Streamlit script that is   *)
(* re-executed from top to bottom on every user interaction.  The state    *)
(* that survives a pass is the process-wide st.cache_data entry of         *)
(* load_data and the session's widget values; everything else is           *)
(* recomputed by the pass and shown on the page (the variable view).       *)
(*                                                                         *)
(* Real-valued results (means, the regression slope, the elasticity) are   *)
(* modelled as exact rationals; the f-string conversions are modelled by   *)
(* the text they produce.                                                  *)
(***************************************************************************)
EXTENDS Integers, Sequences, FiniteSets, TLC

VARIABLES workbook, cache, loadCount, city_filter, price_slider, cost_per_unit, view

vars == <<workbook, cache, loadCount, city_filter, price_slider, cost_per_unit, view>>

(* ---------------- bounds of the model ---------------- *)

\* largest number of rows of the Historical_Sales sheet
MaxRows == 3

\* largest number of executions of the body of load_data
MaxLoads == 3

(* ---------------- the environment: the workbook on disk ---------------- *)

\* the sheet names load_data asks for, in the order it reads them
RequiredSheets == <<"Historical_Sales", "Lost_file", "Scenario_Simulation", "Cost_Structure">>

\* the sheets of a workbook: its competitor sheet, under a name of its own,
\* and any of the four requested names
SheetSets == { {"Competitor_Pricing"} \cup T : T \in SUBSET {RequiredSheets[i] : i \in 1..4} }

\* rows the Historical_Sales sheet is drawn from.  Revenue and Profit are
\* columns of the sheet, read as they are: nothing relates them to
\* Price_per_Unit * Units_Sold (the last row is a refund line).
RowPool ==
  << [City |-> "Delhi",  Month |-> "Jan", Price_per_Unit |-> 20, Units_Sold |-> 9000,
      Revenue |-> 180000, Profit |-> 72000],
     [City |-> "Delhi",  Month |-> "Feb", Price_per_Unit |-> 25, Units_Sold |-> 7500,
      Revenue |-> 187500, Profit |-> 97500],
     [City |-> "Mumbai", Month |-> "Mar", Price_per_Unit |-> 30, Units_Sold |-> 6000,
      Revenue |-> 180000, Profit |-> 108000],
     [City |-> "Mumbai", Month |-> "Jan", Price_per_Unit |-> 25, Units_Sold |-> 0,
      Revenue |-> -500, Profit |-> -500] >>

RECURSIVE PickRows(_, _)
\* the rows of RowPool whose index is in I, in sheet order, from index k on
PickRows(I, k) ==
  IF k > Len(RowPool) THEN <<>>
  ELSE (IF k \in I THEN <<RowPool[k]>> ELSE <<>>) \o PickRows(I, k + 1)

\* the Historical_Sales sheets considered: at least one row, at most MaxRows
Tables ==
  { PickRows(I, 1) :
      I \in { J \in SUBSET (1..Len(RowPool)) : Cardinality(J) \in 1..MaxRows } }

\* the workbooks considered: no file, or a file with some sheets
Workbooks ==
  { [exists |-> FALSE, sheets |-> {}, sales |-> <<>>] }
  \cup { [exists |-> TRUE, sheets |-> S, sales |-> <<>>] :
           S \in { T \in SheetSets : "Historical_Sales" \notin T } }
  \cup { [exists |-> TRUE, sheets |-> S, sales |-> t] :
           S \in { T \in SheetSets : "Historical_Sales" \in T }, t \in Tables }

(* ---------------- slider ranges ---------------- *)

PriceMin == 20
PriceMax == 35
PriceDefault == 25
CostMin == 8
\* a cost slider that reaches as far as the price slider
CostMaxAsPriceMax == PriceMax

CostMax == 18
CostDefault == 12

(* ---------------- arithmetic helpers ---------------- *)

Abs(x) == IF x < 0 THEN -x ELSE x

RECURSIVE GCD(_, _)
GCD(a, b) == IF b = 0 THEN a ELSE GCD(b, a % b)

\* a float that is a number: num/den in lowest terms, den > 0
Finite(n, d) ==
  LET g == GCD(Abs(n), Abs(d))
      s == IF d < 0 THEN -1 ELSE 1
  IN  [kind |-> "finite", num |-> s * (n \div g), den |-> s * (d \div g)]

NaN == [kind |-> "nan"]

Inf(negative) == [kind |-> "inf", neg |-> negative]

RECURSIVE SumCol(_, _)
\* Series.sum() of a column
SumCol(rows, col) ==
  IF rows = <<>> THEN 0 ELSE Head(rows)[col] + SumCol(Tail(rows), col)

RECURSIVE SumProd(_, _, _)
SumProd(rows, a, b) ==
  IF rows = <<>> THEN 0 ELSE Head(rows)[a] * Head(rows)[b] + SumProd(Tail(rows), a, b)

\* Series.mean(): NaN on an empty series
Mean(rows, col) ==
  IF rows = <<>> THEN NaN ELSE Finite(SumCol(rows, col), Len(rows))

\* a / b of two floats as numpy divides them: x/0 is inf (nan for 0/0), no raise
FloatDiv(a, b) ==
  IF a.kind # "finite" \/ b.kind # "finite" THEN NaN
  ELSE IF b.num = 0 THEN (IF a.num = 0 THEN NaN ELSE Inf(a.num < 0))
  ELSE Finite(a.num * b.den, a.den * b.num)

\* a * b of two floats: 0 * inf is nan
FloatMul(a, b) ==
  IF a.kind = "nan" \/ b.kind = "nan" THEN NaN
  ELSE IF a.kind = "inf" /\ b.kind = "inf" THEN Inf(a.neg # b.neg)
  ELSE IF a.kind = "inf" THEN (IF b.num = 0 THEN NaN ELSE Inf(a.neg # (b.num < 0)))
  ELSE IF b.kind = "inf" THEN (IF a.num = 0 THEN NaN ELSE Inf(b.neg # (a.num < 0)))
  ELSE LET g1 == GCD(Abs(a.num), b.den)
           g2 == GCD(Abs(b.num), a.den)
       IN  Finite((a.num \div g1) * (b.num \div g2), (a.den \div g2) * (b.den \div g1))

(* ---------------- f-string conversions ---------------- *)

RECURSIVE Groups(_)
\* the digit groups of n >= 0 that "," separates
Groups(n) == IF n < 1000 THEN <<n>> ELSE Groups(n \div 1000) \o <<n % 1000>>

\* f"{x:,.0f}" of an integer-valued x
FormatComma0(x) == [kind |-> "number", neg |-> x < 0, groups |-> Groups(Abs(x))]

\* f"{v:.2f}": two decimals, ties to even; nan and inf print as words
Format2f(v) ==
  IF v.kind = "nan" THEN [kind |-> "nan"]
  ELSE IF v.kind = "inf" THEN [kind |-> "inf", neg |-> v.neg]
  ELSE LET a == Abs(v.num) * 100
           q == a \div v.den
           r == a % v.den
           h == IF 2 * r > v.den THEN q + 1
                ELSE IF 2 * r = v.den THEN q + (q % 2)
                ELSE q
       IN  [kind |-> "number", neg |-> v.num < 0, units |-> h \div 100, cents |-> h % 100]

(* ---------------- Load Data (lines 20-42) ---------------- *)

NoData == [historical |-> <<>>, competitor |-> "", scenario |-> "", cost |-> ""]

EmptyCache == [loaded |-> FALSE, elements |-> <<>>, data |-> NoData]

\* the requested sheets the workbook lacks, in reading order
MissingSheets(wb) == SelectSeq(RequiredSheets, LAMBDA s : s \notin wb.sheets)

\* a load that carries on with empty tables when a sheet is missing
LoadBodyLenient(wb) ==
  IF ~wb.exists
  THEN [outcome |-> "StopException", elements |-> <<"debug_not_found">>, data |-> NoData]
  ELSE [outcome |-> "ok", elements |-> <<"debug_sheets">>,
        data |-> [historical |-> wb.sales, competitor |-> RequiredSheets[2],
                  scenario |-> RequiredSheets[3], cost |-> RequiredSheets[4]]]

\* the body of load_data.  A missing file is reported and st.stop() ends the
\* pass; an existing file has its sheet list shown, then the four sheets are
\* read and the first missing one raises ValueError out of read_excel.  A
\* sheet's content is stood for by the name it was read under, except the
\* sales table.
LoadBody(wb) ==
  IF ~wb.exists
  THEN [outcome |-> "StopException", elements |-> <<"debug_not_found">>, data |-> NoData]
  ELSE IF MissingSheets(wb) # <<>>
  THEN [outcome |-> "ValueError", elements |-> <<"debug_sheets">>, data |-> NoData]
  ELSE [outcome |-> "ok", elements |-> <<"debug_sheets">>,
        data |-> [historical |-> wb.sales, competitor |-> RequiredSheets[2],
                  scenario |-> RequiredSheets[3], cost |-> RequiredSheets[4]]]

\* a load_data whose cache is never hit: the body runs on every call
LoadDataAlwaysRuns(c, wb) ==
  LET b == LoadBody(wb)
  IN  [outcome |-> b.outcome, elements |-> b.elements, data |-> b.data,
       cache |-> IF b.outcome = "ok"
                 THEN [loaded |-> TRUE, elements |-> b.elements, data |-> b.data]
                 ELSE c,
       ran |-> 1]

\* load_data() under @st.cache_data: a hit returns the stored value and
\* replays the stored st.error element without running the body; a miss runs
\* the body and stores its result only if it returns (an exception, st.stop()
\* included, stores nothing)
LoadData(c, wb) ==
  IF c.loaded
  THEN [outcome |-> "ok", elements |-> c.elements, data |-> c.data, cache |-> c, ran |-> 0]
  ELSE LET b == LoadBody(wb)
       IN  [outcome |-> b.outcome, elements |-> b.elements, data |-> b.data,
            cache |-> IF b.outcome = "ok"
                      THEN [loaded |-> TRUE, elements |-> b.elements, data |-> b.data]
                      ELSE c,
            ran |-> 1]

(* ---------------- Sidebar Filters (lines 47-55) ---------------- *)

\* historical["City"].unique(): the multiselect's options and its default
Unique(rows, col) == { rows[i][col] : i \in 1..Len(rows) }

\* rows of every city but the selected ones
FilterByCityInverted(rows, sel) == SelectSeq(rows, LAMBDA r : r.City \notin sel)

\* historical[historical["City"].isin(city_filter)]
FilterByCity(rows, sel) == SelectSeq(rows, LAMBDA r : r.City \in sel)

(* ---------------- KPI Section (lines 60-67) ---------------- *)

NotRun == [kind |-> "not_run"]

KPI(rows) ==
  [kind |-> "shown",
   revenue |-> FormatComma0(SumCol(rows, "Revenue")),
   profit |-> FormatComma0(SumCol(rows, "Profit")),
   avg_price |-> Format2f(Mean(rows, "Price_per_Unit")),
   units |-> FormatComma0(SumCol(rows, "Units_Sold"))]

(* ---------------- Price Elasticity Calculation (lines 103-112) ---------------- *)

\* n * Sxx - Sx^2 of the price column: zero when the fit is rank deficient
PriceSpread(rows) ==
  Len(rows) * SumProd(rows, "Price_per_Unit", "Price_per_Unit")
    - SumCol(rows, "Price_per_Unit") * SumCol(rows, "Price_per_Unit")

\* a fit through the origin: the slope without the centring terms
PolyfitSlopeThroughOrigin(rows) ==
  IF rows = <<>> THEN [kind |-> "raise", exc |-> "TypeError"]
  ELSE IF PriceSpread(rows) = 0
  THEN Finite(SumCol(rows, "Units_Sold"), 2 * SumCol(rows, "Price_per_Unit"))
  ELSE Finite(SumProd(rows, "Price_per_Unit", "Units_Sold"),
              SumProd(rows, "Price_per_Unit", "Price_per_Unit"))

\* np.polyfit(price, demand, 1)[0].  An empty x raises TypeError.  When all
\* prices are equal (a single row included) the least-squares system is rank
\* deficient: polyfit warns and returns the minimum-norm solution of the
\* column-scaled system, whose slope is mean(demand) / (2 * price).
\* Otherwise the slope is the ordinary least-squares one.
PolyfitSlope(rows) ==
  IF rows = <<>> THEN [kind |-> "raise", exc |-> "TypeError"]
  ELSE IF PriceSpread(rows) = 0
  THEN (IF SumCol(rows, "Price_per_Unit") = 0 THEN NaN
        ELSE Finite(SumCol(rows, "Units_Sold"), 2 * SumCol(rows, "Price_per_Unit")))
  ELSE Finite(Len(rows) * SumProd(rows, "Price_per_Unit", "Units_Sold")
                - SumCol(rows, "Price_per_Unit") * SumCol(rows, "Units_Sold"),
              PriceSpread(rows))

\* line 108: the slope times price.mean() / demand.mean()
Elasticity(rows) ==
  LET s == PolyfitSlope(rows)
  IN  IF s.kind = "raise" THEN s
      ELSE FloatMul(s, FloatDiv(Mean(rows, "Price_per_Unit"), Mean(rows, "Units_Sold")))

ElasticityMetric(rows) ==
  LET e == Elasticity(rows)
  IN  IF e.kind = "raise" THEN e
      ELSE [kind |-> "shown", value |-> e, text |-> Format2f(e)]

(* ---------------- Revenue Optimisation Simulator (lines 117-140) ---------------- *)

\* a steeper demand line
ExpectedDemandSteep(price) == 15000 - price * 500

ExpectedDemand(price) == 15000 - price * 300

\* revenue computed from the cost instead of the price
ExpectedRevenueFromCost(price, cost) == cost * ExpectedDemand(price)

ExpectedRevenue(price, cost) == price * ExpectedDemand(price)

\* the margin taken the wrong way round
ExpectedProfitSwapped(price, cost) == (cost - price) * ExpectedDemand(price)

ExpectedProfit(price, cost) == (price - cost) * ExpectedDemand(price)

Simulator(price, cost) ==
  [kind |-> "shown",
   expected_demand |-> ExpectedDemand(price),
   expected_revenue |-> ExpectedRevenue(price, cost),
   expected_profit |-> ExpectedProfit(price, cost),
   demand_text |-> FormatComma0(ExpectedDemand(price)),
   revenue_text |-> FormatComma0(ExpectedRevenue(price, cost)),
   profit_text |-> FormatComma0(ExpectedProfit(price, cost))]

(* ---------------- the page a pass produces ---------------- *)

HeaderEls == <<"title", "tagline">>
FilterEls == <<"filters_header", "city_filter">>
KpiEls == <<"summary_header", "kpi_revenue", "kpi_profit", "kpi_avg_price", "kpi_units">>
ChartEls == <<"trend_header", "trend_chart", "scatter_header", "scatter_chart">>
ElasticityHeadEls == <<"elasticity_header">>
ElasticityEls == <<"elasticity_metric", "elasticity_caption">>
SimEls == <<"simulator_header", "price_slider", "cost_slider",
            "sim_demand", "sim_revenue", "sim_profit">>
TailEls == <<"scenario_header", "scenario_chart", "cost_header", "cost_chart",
             "competitor_header", "competitor_chart", "insight">>

\* what an uncaught exception leaves on the page
ExceptionEls == <<"exception">>

BlankView == [rendered |-> <<>>, exception |-> "none",
              kpi |-> NotRun, elasticity |-> NotRun, sim |-> NotRun]

\* the page of a pass that ended inside load_data
LoadFailedView(ld) ==
  [rendered |-> HeaderEls \o ld.elements
                \o (IF ld.outcome = "StopException" THEN <<>> ELSE ExceptionEls),
   exception |-> ld.outcome,
   kpi |-> NotRun, elasticity |-> NotRun, sim |-> NotRun]

\* the page of a pass that got past load_data: it ends at line 108 when
\* polyfit raises, and runs to the last line otherwise
LoadedView(ld, filtered_data, el, price, cost) ==
  IF el.kind = "raise"
  THEN [rendered |-> HeaderEls \o ld.elements \o FilterEls \o KpiEls \o ChartEls
                     \o ElasticityHeadEls \o ExceptionEls,
        exception |-> el.exc,
        kpi |-> KPI(filtered_data), elasticity |-> el, sim |-> NotRun]
  ELSE [rendered |-> HeaderEls \o ld.elements \o FilterEls \o KpiEls \o ChartEls
                     \o ElasticityHeadEls \o ElasticityEls \o SimEls \o TailEls,
        exception |-> "none",
        kpi |-> KPI(filtered_data), elasticity |-> el, sim |-> Simulator(price, cost)]

(* ---------------- state machine ---------------- *)

Rendered(el) == \E i \in 1..Len(view.rendered) : view.rendered[i] = el

Init ==
  /\ workbook \in Workbooks
  /\ cache = EmptyCache
  /\ loadCount = 0
  /\ city_filter = {}
  /\ price_slider = PriceDefault
  /\ cost_per_unit = CostDefault
  /\ view = BlankView

\* one execution of the script, top to bottom, with the given widget values.
\* hasSel: the session holds a value for the multiselect (otherwise its
\* default, every city, is used).  A slider the pass did not reach keeps its
\* session value or loses it (keep), depending on the Streamlit release; a
\* lost value is the default the next time the slider is drawn.
Pass(hasSel, sel, price, cost, keep) ==
  \E ld \in {LoadData(cache, workbook)} :
    /\ loadCount + ld.ran <= MaxLoads
    /\ cache' = ld.cache
    /\ loadCount' = loadCount + ld.ran
    /\ UNCHANGED workbook
    /\ IF ld.outcome # "ok"
       THEN /\ city_filter' = {}
            /\ price_slider' = (IF keep THEN price ELSE PriceDefault)
            /\ cost_per_unit' = (IF keep THEN cost ELSE CostDefault)
            /\ view' = LoadFailedView(ld)
       ELSE \E chosen \in {IF hasSel THEN sel ELSE Unique(ld.data.historical, "City")} :
            \E filtered_data \in {FilterByCity(ld.data.historical, chosen)} :
            \E el \in {ElasticityMetric(filtered_data)} :
              /\ city_filter' = chosen
              /\ price_slider' = (IF el.kind # "raise" \/ keep THEN price ELSE PriceDefault)
              /\ cost_per_unit' = (IF el.kind # "raise" \/ keep THEN cost ELSE CostDefault)
              /\ view' = LoadedView(ld, filtered_data, el, price, cost)

\* the page is opened, or rerun by hand, with the session's widget values
Rerun ==
  \E keep \in BOOLEAN :
    Pass(Rendered("city_filter"), city_filter, price_slider, cost_per_unit, keep)

\* the user changes the city multiselect
ChangeCity ==
  /\ Rendered("city_filter")
  /\ \E S \in SUBSET Unique(cache.data.historical, "City"), keep \in BOOLEAN :
       /\ S # city_filter
       /\ Pass(TRUE, S, price_slider, cost_per_unit, keep)

\* the user moves the price slider
ChangePrice ==
  /\ Rendered("price_slider")
  /\ \E p \in PriceMin..PriceMax :
       /\ p # price_slider
       /\ Pass(TRUE, city_filter, p, cost_per_unit, TRUE)

\* the user moves the cost slider
ChangeCost ==
  /\ Rendered("cost_slider")
  /\ \E k \in CostMin..CostMax :
       /\ k # cost_per_unit
       /\ Pass(TRUE, city_filter, price_slider, k, TRUE)

Next == Rerun \/ ChangeCity \/ ChangePrice \/ ChangeCost

Spec == Init /\ [][Next]_vars

(* ---------------- properties ---------------- *)

\* the rows the current selection keeps
Selected == FilterByCity(cache.data.historical, city_filter)

\* the number a comma-grouped text stands for
RECURSIVE GroupsValue(_)
GroupsValue(g) == IF g = <<>> THEN 0 ELSE GroupsValue(SubSeq(g, 1, Len(g) - 1)) * 1000 + g[Len(g)]

TextValue(t) == IF t.neg THEN -GroupsValue(t.groups) ELSE GroupsValue(t.groups)

\* the sum of a column over a set of row indices of the loaded sales table
RECURSIVE SumAt(_, _)
SumAt(I, col) ==
  IF I = {} THEN 0
  ELSE LET i == CHOOSE j \in I : TRUE
       IN  cache.data.historical[i][col] + SumAt(I \ {i}, col)

\* C1: whenever the simulator has been presented, expected_demand is
\* 15000 - 300*price, expected_revenue is price * expected_demand and
\* expected_profit is (price - cost_per_unit) * expected_demand, with price in
\* 20..35 and cost in 8..18; at price 25 and cost 12 the outputs are 7500,
\* 187500 and 97500, shown as 7,500 / 187,500 / 97,500.
C1_SimulatorFormulas ==
  view.sim.kind = "shown" =>
    /\ price_slider \in 20..35
    /\ cost_per_unit \in 8..18
    /\ view.sim.expected_demand = 15000 - 300 * price_slider
    /\ view.sim.expected_revenue = price_slider * (15000 - 300 * price_slider)
    /\ view.sim.expected_profit =
         (price_slider - cost_per_unit) * (15000 - 300 * price_slider)
    /\ TextValue(view.sim.demand_text) = view.sim.expected_demand
    /\ TextValue(view.sim.revenue_text) = view.sim.expected_revenue
    /\ TextValue(view.sim.profit_text) = view.sim.expected_profit
    /\ (price_slider = 25 /\ cost_per_unit = 12 =>
          /\ view.sim.expected_demand = 7500
          /\ view.sim.expected_revenue = 187500
          /\ view.sim.expected_profit = 97500
          /\ view.sim.demand_text.groups = <<7, 500>>
          /\ view.sim.revenue_text.groups = <<187, 500>>
          /\ view.sim.profit_text.groups = <<97, 500>>)

C1_Witness ==
  /\ view.sim.kind = "shown"
  /\ price_slider = 25
  /\ cost_per_unit = 12
  /\ view.sim.expected_profit = 97500

\* C2: the price slider stays within 20..35 and the presented expected_demand
\* is never negative: it is 9000 at price 20 and at least 4500, the value it
\* takes at price 35 only.
C2_DemandNeverNegative ==
  /\ price_slider \in 20..35
  /\ view.sim.kind = "shown" =>
       /\ view.sim.expected_demand >= 0
       /\ view.sim.expected_demand >= 4500
       /\ (price_slider = 20 => view.sim.expected_demand = 9000)
       /\ (price_slider = 35 <=> view.sim.expected_demand = 4500)
       /\ ~view.sim.demand_text.neg

C2_Witness ==
  /\ view.sim.kind = "shown"
  /\ price_slider = 35
  /\ view.sim.expected_demand = 4500

\* C3 (as claimed): when the filtered data has fewer than 2 rows or all its
\* prices are equal, the elasticity step shows an "insufficient data" outcome:
\* it neither raises nor shows a number, NaN or infinity.
C3_InsufficientDataReported ==
  (cache.loaded /\ view.kpi.kind = "shown"
     /\ (Len(Selected) < 2 \/ PriceSpread(Selected) = 0))
  => view.elasticity.kind = "insufficient_data"

\* C4 (as claimed): over an empty filtered set the totals are shown as 0, the
\* mean price is shown as an explicit "no data" value, not as a formatted NaN,
\* and the aggregation step does not raise.
C4_EmptyAggregation ==
  (cache.loaded /\ loadCount > 0 /\ view # BlankView /\ Selected = <<>>)
  => /\ view.kpi.kind = "shown"
     /\ view.kpi.revenue = [kind |-> "number", neg |-> FALSE, groups |-> <<0>>]
     /\ view.kpi.profit = [kind |-> "number", neg |-> FALSE, groups |-> <<0>>]
     /\ view.kpi.units = [kind |-> "number", neg |-> FALSE, groups |-> <<0>>]
     /\ view.kpi.avg_price.kind = "no_data"

\* the total revenue shown for the selection S
ShownRevenue(S) == TextValue(KPI(FilterByCity(cache.data.historical, S)).revenue)

\* the row indices of the loaded sales table whose City is in S
RowsOf(S) ==
  { i \in 1..Len(cache.data.historical) : cache.data.historical[i].City \in S }

\* C5 (amended): the total revenue shown is the sum of Revenue over exactly
\* the rows whose City is selected, and no selection containing the current
\* one shows a smaller total, provided the rows it adds have no negative
\* Revenue.
C5_FilteredRevenue ==
  view.kpi.kind = "shown" =>
    /\ view.kpi.revenue.kind = "number"
    /\ TextValue(view.kpi.revenue) = SumAt(RowsOf(city_filter), "Revenue")
    /\ \A S2 \in SUBSET Unique(cache.data.historical, "City") :
         (/\ city_filter \subseteq S2
          /\ \A i \in RowsOf(S2 \ city_filter) : cache.data.historical[i].Revenue >= 0)
         => TextValue(view.kpi.revenue) <= ShownRevenue(S2)

C5_Witness ==
  /\ view.kpi.kind = "shown"
  /\ city_filter # {}
  /\ city_filter # Unique(cache.data.historical, "City")
  /\ loadCount = 1
  /\ TextValue(view.kpi.revenue) = 367500

\* C5 (as claimed): the total shown is the sum over the selected rows and
\* every selection containing the current one shows a total at least as large.
C5_Original ==
  view.kpi.kind = "shown" =>
    /\ TextValue(view.kpi.revenue) = SumAt(RowsOf(city_filter), "Revenue")
    /\ \A S2 \in SUBSET Unique(cache.data.historical, "City") :
         city_filter \subseteq S2 => TextValue(view.kpi.revenue) <= ShownRevenue(S2)

\* the workbook makes load_data fail
LoadMustFail == ~workbook.exists \/ MissingSheets(workbook) # <<>>

\* elements of the page that the steps after the load produce
LaterEls ==
  {"filters_header", "city_filter", "summary_header", "kpi_revenue", "kpi_profit",
   "kpi_avg_price", "kpi_units", "trend_header", "trend_chart", "scatter_header",
   "scatter_chart", "elasticity_header", "elasticity_metric", "elasticity_caption",
   "simulator_header", "price_slider", "cost_slider", "sim_demand", "sim_revenue",
   "sim_profit", "scenario_header", "scenario_chart", "cost_header", "cost_chart",
   "competitor_header", "competitor_chart", "insight"}

NoLaterStep ==
  /\ \A i \in 1..Len(view.rendered) : view.rendered[i] \notin LaterEls
  /\ view.kpi.kind = "not_run"
  /\ view.elasticity.kind = "not_run"
  /\ view.sim.kind = "not_run"
  /\ ~cache.loaded

\* C6 (amended): if the workbook is missing or lacks a requested sheet, a pass
\* halts inside the load step: no later step runs and nothing of a later step
\* is shown, and the body of load_data runs once in the pass.  The page is not
\* empty: it shows the title and tagline drawn before the load, followed by
\* the load step's own message (and the exception, for a missing sheet).
C6_LoadFailFast ==
  /\ [](LoadMustFail /\ loadCount > 0 =>
          /\ NoLaterStep
          /\ view.exception =
               (IF workbook.exists THEN "ValueError" ELSE "StopException")
          /\ view.rendered =
               (IF workbook.exists
                THEN <<"title", "tagline", "debug_sheets", "exception">>
                ELSE <<"title", "tagline", "debug_not_found">>))
  /\ [][LoadMustFail => loadCount' = loadCount + 1]_vars

C6_Witness ==
  /\ workbook.exists
  /\ "Lost_file" \notin workbook.sheets
  /\ "Historical_Sales" \in workbook.sheets
  /\ loadCount = 2
  /\ view.exception = "ValueError"

\* C6 (as claimed): after a failed load no later step has run and nothing is
\* rendered, not even partially.
C6_Original ==
  (LoadMustFail /\ loadCount > 0) => (NoLaterStep /\ view.rendered = <<>>)

\* the price and the demand column of the selected rows
PriceColumn == [i \in 1..Len(Selected) |-> Selected[i].Price_per_Unit]
DemandColumn == [i \in 1..Len(Selected) |-> Selected[i].Units_Sold]

\* e is slope * mean(price) / mean(demand) for the least-squares slope of the
\* selected rows: the slope solves the normal equation
\* slope * (n*Sxx - Sx^2) = n*Sxy - Sx*Sy, cross-multiplied here
IsOlsElasticity(e) ==
  LET n == Len(Selected)
      Sx == SumCol(Selected, "Price_per_Unit")
      Sy == SumCol(Selected, "Units_Sold")
      Sxy == SumProd(Selected, "Price_per_Unit", "Units_Sold")
      Sxx == SumProd(Selected, "Price_per_Unit", "Price_per_Unit")
  IN  /\ e.kind = "finite"
      /\ e.num * Sy * (n * Sxx - Sx * Sx) = e.den * Sx * (n * Sxy - Sx * Sy)

ElasticityDefined ==
  /\ view.elasticity.kind = "shown"
  /\ Len(Selected) >= 2
  /\ PriceSpread(Selected) # 0
  /\ SumCol(Selected, "Units_Sold") # 0

\* C7 (amended): for at least 2 rows with non-constant price and non-zero mean
\* demand the elasticity shown is (least-squares slope of demand on price) *
\* mean(price) / mean(demand); for price = [20,25,30] and demand =
\* [9000,7500,6000] the slope is -300 and the elasticity is exactly -1, shown
\* as -1.00.
C7_ElasticityValue ==
  ElasticityDefined =>
    /\ IsOlsElasticity(view.elasticity.value)
    /\ view.elasticity.text = Format2f(view.elasticity.value)
    /\ (PriceColumn = <<20, 25, 30>> /\ DemandColumn = <<9000, 7500, 6000>> =>
          /\ view.elasticity.value = [kind |-> "finite", num |-> -1, den |-> 1]
          /\ view.elasticity.text =
               [kind |-> "number", neg |-> TRUE, units |-> 1, cents |-> 0])

C7_Witness ==
  /\ ElasticityDefined
  /\ PriceColumn = <<20, 25, 30>>
  /\ DemandColumn = <<9000, 7500, 6000>>
  /\ view.elasticity.value.num = -1

\* C7 (as claimed): as above, but -2 for the three-point example.
C7_Original ==
  ElasticityDefined =>
    /\ IsOlsElasticity(view.elasticity.value)
    /\ (PriceColumn = <<20, 25, 30>> /\ DemandColumn = <<9000, 7500, 6000>> =>
          view.elasticity.value = [kind |-> "finite", num |-> -2, den |-> 1])

\* C8 (as claimed): after a successful load every pass presents the simulator,
\* whatever the city selection, and what it presents is a function of the two
\* sliders alone.
C8_SimulatorIndependent ==
  (cache.loaded /\ view # BlankView) =>
    /\ view.sim.kind = "shown"
    /\ view.sim = Simulator(price_slider, cost_per_unit)

\* C9: the body of load_data has run exactly once whenever the datasets are
\* loaded, the cached datasets are the workbook's sheets, and no step changes
\* the cache or runs the body again once it is loaded.
C9_LoadedOnce ==
  /\ [](cache.loaded =>
          /\ loadCount = 1
          /\ cache.data = [historical |-> workbook.sales, competitor |-> "Lost_file",
                           scenario |-> "Scenario_Simulation", cost |-> "Cost_Structure"])
  /\ [][cache.loaded => (cache' = cache /\ loadCount' = loadCount)]_vars

C9_Witness ==
  /\ cache.loaded
  /\ loadCount = 1
  /\ price_slider = 30
  /\ cost_per_unit = 10
  /\ city_filter = {"Mumbai"}
  /\ Len(cache.data.historical) = 3

\* C10: the price exceeds the cost by at least 2 in every state, and the
\* expected_profit presented is positive, at least 9000.
C10_PriceAboveCost ==
  /\ price_slider - cost_per_unit >= 2
  /\ cost_per_unit \in 8..18
  /\ view.sim.kind = "shown" =>
       /\ view.sim.expected_profit > 0
       /\ view.sim.expected_profit >= 9000

C10_Witness ==
  /\ view.sim.kind = "shown"
  /\ price_slider = 20
  /\ cost_per_unit = 18
  /\ view.sim.expected_profit = 18000

====
